---- MODULE Spec2Model ----
(***************************************************************************)
(* A model of src/src/yaml.rs: the Node / Yaml document model, the scalar  *)
(* resolver (Node::from_str and the tagged arms of on_event), the          *)
(* event-driven tree builder YamlLoader and the Index accessors.           *)
(*                                                                         *)
(* Scalar texts are TLA+ strings; a character is a string of length one.   *)
(* An i64 is kept as its 64-bit two's complement pattern, four 16-bit      *)
(* limbs, most significant first, so that overflow of the parses and the   *)
(* `usize as i64` cast behave as they do in the build.                     *)
(***************************************************************************)
EXTENDS Integers, Sequences, FiniteSets, TLC

(***************************************************************************)
(* Bounds of the model.                                                    *)
(***************************************************************************)
\* longest text enumerated over Alphabet for the resolver inputs
MaxLen == 2
\* node events (scalars, aliases, containers) of one stream
MaxNodes == 4
\* documents of one stream
MaxDocs == 2
\* open containers nested at the same time
MaxDepth == 2
\* longest chain of index steps applied to a finished document
MaxChain == 2
\* key/value pairs of the mapping in the flat-mapping specification
MaxPairs == 3

(***************************************************************************)
(* Characters and strings.                                                 *)
(***************************************************************************)
Char(s, i) == SubSeq(s, i, i)

Rest(s, i) == SubSeq(s, i, Len(s))

starts_with(s, p) == Len(s) >= Len(p) /\ SubSeq(s, 1, Len(p)) = p

LowerDigits == "0123456789abcdefghijklmnopqrstuvwxyz"

UpperDigits == "0123456789ABCDEFGHIJKLMNOPQRSTUVWXYZ"

\* char::to_digit(radix): the digit's value, or -1 when c is no digit of the radix
to_digit(c, radix) ==
    LET hits == { i \in 1..radix : Char(LowerDigits, i) = c \/ Char(UpperDigits, i) = c }
    IN  IF hits = {} THEN -1 ELSE (CHOOSE i \in hits : TRUE) - 1

\* char::to_ascii_lowercase
to_ascii_lowercase(c) ==
    LET hits == { i \in 11..36 : Char(UpperDigits, i) = c }
    IN  IF hits = {} THEN c ELSE Char(LowerDigits, CHOOSE i \in hits : TRUE)

RECURSIVE Lower(_)
Lower(s) == IF s = "" THEN "" ELSE to_ascii_lowercase(Char(s, 1)) \o Lower(Rest(s, 2))

(***************************************************************************)
(* 64-bit integers as four 16-bit limbs.                                   *)
(***************************************************************************)
LimbBase == 2^16

SignLimb == 2^15

Zero64 == <<0, 0, 0, 0>>

\* u * radix + d on 64 bits; of is set when the result does not fit 64 bits
MulAdd(u, radix, d) ==
    LET t4 == u[4] * radix + d
        t3 == u[3] * radix + (t4 \div LimbBase)
        t2 == u[2] * radix + (t3 \div LimbBase)
        t1 == u[1] * radix + (t2 \div LimbBase)
    IN  [v  |-> <<t1 % LimbBase, t2 % LimbBase, t3 % LimbBase, t4 % LimbBase>>,
         of |-> t1 \div LimbBase > 0]

\* two's complement negation on 64 bits
Neg64(u) ==
    LET n4 == (LimbBase - u[4]) % LimbBase
        b4 == IF u[4] = 0 THEN 0 ELSE 1
        n3 == (2 * LimbBase - u[3] - b4) % LimbBase
        b3 == IF u[3] + b4 = 0 THEN 0 ELSE 1
        n2 == (2 * LimbBase - u[2] - b3) % LimbBase
        b2 == IF u[2] + b3 = 0 THEN 0 ELSE 1
        n1 == (2 * LimbBase - u[1] - b2) % LimbBase
    IN  <<n1, n2, n3, n4>>

\* a small non-negative number as an i64
I64(n) == <<0, 0, n \div LimbBase, n % LimbBase>>

\* the magnitude of a digit string: ok is FALSE on a non-digit or past 2^64 - 1
RECURSIVE Magnitude(_, _, _)
Magnitude(digits, radix, acc) ==
    IF digits = "" THEN [ok |-> TRUE, v |-> acc]
    ELSE LET x == to_digit(Char(digits, 1), radix)
             r == MulAdd(acc, radix, IF x < 0 THEN 0 ELSE x)
         IN  IF x < 0 \/ r.of THEN [ok |-> FALSE, v |-> Zero64]
             ELSE Magnitude(Rest(digits, 2), radix, r.v)

\* i64::from_str_radix: optional sign, then at least one digit of the radix;
\* Err on an empty string, a non-digit, or a value outside -2^63 .. 2^63 - 1
from_str_radix(src, radix) ==
    LET first    == IF src = "" THEN "" ELSE Char(src, 1)
        positive == first # "-"
        digits   == IF first \in {"+", "-"} THEN Rest(src, 2) ELSE src
        m        == Magnitude(digits, radix, Zero64)
        Err      == [ok |-> FALSE, v |-> Zero64]
    IN  IF digits = "" \/ ~m.ok THEN Err
        ELSE IF positive
             THEN IF m.v[1] < SignLimb THEN [ok |-> TRUE, v |-> m.v] ELSE Err
             ELSE IF m.v[1] < SignLimb \/ m.v = <<SignLimb, 0, 0, 0>>
                  THEN [ok |-> TRUE, v |-> Neg64(m.v)] ELSE Err

\* str::parse::<i64>()
parse_i64(v) == from_str_radix(v, 10)

\* str::parse::<bool>()
parse_bool(v) ==
    IF v = "true" THEN [ok |-> TRUE, v |-> TRUE]
    ELSE IF v = "false" THEN [ok |-> TRUE, v |-> FALSE]
    ELSE [ok |-> FALSE, v |-> FALSE]

(***************************************************************************)
(* Floats.  A float is known by its class only: a finite number, one of    *)
(* the infinities, or NaN.                                                 *)
(***************************************************************************)
IsDigits(s) == \A i \in 1..Len(s) : to_digit(Char(s, i), 10) >= 0

\* Digit+ | Digit+ '.' Digit* | Digit* '.' Digit+
IsMantissa(s) ==
    \/ s # "" /\ IsDigits(s)
    \/ \E p \in 1..Len(s) :
          /\ Char(s, p) = "."
          /\ IsDigits(SubSeq(s, 1, p - 1))
          /\ IsDigits(Rest(s, p + 1))
          /\ Len(s) > 1

\* ( 'e' | 'E' ) Sign? Digit+
IsExponent(s) ==
    /\ s # ""
    /\ Char(s, 1) \in {"e", "E"}
    /\ LET t == Rest(s, 2)
           d == IF t # "" /\ Char(t, 1) \in {"+", "-"} THEN Rest(t, 2) ELSE t
       IN  d # "" /\ IsDigits(d)

IsNumber(s) ==
    \E p \in 1..Len(s) :
        /\ IsMantissa(SubSeq(s, 1, p))
        /\ (p = Len(s) \/ IsExponent(Rest(s, p + 1)))

\* str::parse::<f64>(): Sign? ( 'inf' | 'infinity' | 'nan' | Number ), letters in any case
parse_float(v) ==
    LET first == IF v = "" THEN "" ELSE Char(v, 1)
        body  == IF first \in {"+", "-"} THEN Rest(v, 2) ELSE v
        low   == Lower(body)
    IN  IF low \in {"inf", "infinity"}
        THEN [ok |-> TRUE, cls |-> IF first = "-" THEN "neg_infinity" ELSE "infinity"]
        ELSE IF low = "nan" THEN [ok |-> TRUE, cls |-> "nan"]
        ELSE IF IsNumber(body) THEN [ok |-> TRUE, cls |-> "finite"]
        ELSE [ok |-> FALSE, cls |-> "none"]

\* parse_f64: the Core schema spellings first, then the standard parse
parse_f64(v) ==
    IF v \in {".inf", ".Inf", ".INF", "+.inf", "+.Inf", "+.INF"}
    THEN [ok |-> TRUE, cls |-> "infinity"]
    ELSE IF v \in {"-.inf", "-.Inf", "-.INF"}
    THEN [ok |-> TRUE, cls |-> "neg_infinity"]
    ELSE IF v \in {".nan", "NaN", ".NAN"}
    THEN [ok |-> TRUE, cls |-> "nan"]
    ELSE parse_float(v)

(***************************************************************************)
(* Node and Yaml.  A Node is its kind k and the payload of that kind: the  *)
(* text s of a Real or String, the bits i of an Integer, the b of a        *)
(* Boolean, the children c of an Array (Yaml) or of a Hash (its entries    *)
(* in iteration order).  A Yaml is [m |-> marker, n |-> Node], marker 0    *)
(* standing for None.                                                      *)
(***************************************************************************)
Node(k, s, i, b, c) == [k |-> k, s |-> s, i |-> i, b |-> b, c |-> c]

Real(s) == Node("Real", s, Zero64, FALSE, <<>>)

Integer(i) == Node("Integer", "", i, FALSE, <<>>)

String(s) == Node("String", s, Zero64, FALSE, <<>>)

Boolean(b) == Node("Boolean", "", Zero64, b, <<>>)

Array(a) == Node("Array", "", Zero64, FALSE, a)

Hash(h) == Node("Hash", "", Zero64, FALSE, h)

Null == Node("Null", "", Zero64, FALSE, <<>>)

BadValue == Node("BadValue", "", Zero64, FALSE, <<>>)

NoMarker == 0

Yaml(m, n) == [m |-> m, n |-> n]

HashItem(km, y) == [key_marker |-> km, value |-> y]

is_badvalue(n) == n.k = "BadValue"

\* from_str that tries the float parse before the decimal integer parse
from_str_float_first(v) ==
    LET hex  == from_str_radix(Rest(v, 3), 16)
        oct  == from_str_radix(Rest(v, 3), 8)
        plus == parse_i64(Rest(v, 2))
        dec  == parse_i64(v)
    IN  IF starts_with(v, "0x") /\ hex.ok THEN Integer(hex.v)
        ELSE IF starts_with(v, "0o") /\ oct.ok THEN Integer(oct.v)
        ELSE IF starts_with(v, "+") /\ plus.ok THEN Integer(plus.v)
        ELSE IF v \in {"~", "null"} THEN Null
        ELSE IF v = "true" THEN Boolean(TRUE)
        ELSE IF v = "false" THEN Boolean(FALSE)
        ELSE IF parse_f64(v).ok THEN Real(v)
        ELSE IF dec.ok THEN Integer(dec.v)
        ELSE String(v)

\* Node::from_str: plain scalar inference
from_str(v) ==
    LET hex  == from_str_radix(Rest(v, 3), 16)
        oct  == from_str_radix(Rest(v, 3), 8)
        plus == parse_i64(Rest(v, 2))
        dec  == parse_i64(v)
    IN  IF starts_with(v, "0x") /\ hex.ok THEN Integer(hex.v)
        ELSE IF starts_with(v, "0o") /\ oct.ok THEN Integer(oct.v)
        ELSE IF starts_with(v, "+") /\ plus.ok THEN Integer(plus.v)
        ELSE IF v \in {"~", "null"} THEN Null
        ELSE IF v = "true" THEN Boolean(TRUE)
        ELSE IF v = "false" THEN Boolean(FALSE)
        ELSE IF dec.ok THEN Integer(dec.v)
        ELSE IF parse_f64(v).ok THEN Real(v)
        ELSE String(v)

\* Option<TokenType>: None, or Some(TokenType::Tag(handle, suffix))
NoTag == [some |-> FALSE, handle |-> "", suffix |-> ""]

Tag(handle, suffix) == [some |-> TRUE, handle |-> handle, suffix |-> suffix]

\* TaggedNode that takes a failed parse of a core tag as a hint and infers
TaggedNode_lenient(v, suffix) ==
    CASE suffix = "bool" /\ parse_bool(v).ok -> Boolean(parse_bool(v).v)
      [] suffix = "int" /\ parse_i64(v).ok -> Integer(parse_i64(v).v)
      [] suffix = "float" /\ parse_f64(v).ok -> Real(v)
      [] suffix = "null" /\ v \in {"~", "null"} -> Null
      [] suffix = "str" -> String(v)
      [] OTHER -> from_str(v)

\* TaggedNode that takes the text of a !!float scalar without parsing it
TaggedNode_trusting_float(v, suffix) ==
    CASE suffix = "bool" ->
           IF parse_bool(v).ok THEN Boolean(parse_bool(v).v) ELSE BadValue
      [] suffix = "int" ->
           IF parse_i64(v).ok THEN Integer(parse_i64(v).v) ELSE BadValue
      [] suffix = "float" -> Real(v)
      [] suffix = "null" ->
           IF v \in {"~", "null"} THEN Null ELSE BadValue
      [] OTHER -> String(v)

\* on_event, Event::Scalar: the node of a plain scalar tagged !!suffix
TaggedNode(v, suffix) ==
    CASE suffix = "bool" ->
           IF parse_bool(v).ok THEN Boolean(parse_bool(v).v) ELSE BadValue
      [] suffix = "int" ->
           IF parse_i64(v).ok THEN Integer(parse_i64(v).v) ELSE BadValue
      [] suffix = "float" ->
           IF parse_f64(v).ok THEN Real(v) ELSE BadValue
      [] suffix = "null" ->
           IF v \in {"~", "null"} THEN Null ELSE BadValue
      [] OTHER -> String(v)

\* ScalarNode that looks at the tag before the style
ScalarNode_tag_first(v, style, tag) ==
    IF tag.some
    THEN IF tag.handle = "!!" THEN TaggedNode(v, tag.suffix) ELSE String(v)
    ELSE IF style # "Plain" THEN String(v)
    ELSE from_str(v)

\* on_event, Event::Scalar: the node built from the text, its style and its tag
ScalarNode(v, style, tag) ==
    IF style # "Plain" THEN String(v)
    ELSE IF tag.some
    THEN IF tag.handle = "!!" THEN TaggedNode(v, tag.suffix) ELSE String(v)
    ELSE from_str(v)

(***************************************************************************)
(* Equality of Node.  The derived PartialEq compares Yaml and HashItem by  *)
(* their Node only (markers and key markers are ignored), arrays element   *)
(* by element and hashes entry by entry in iteration order.                *)
(***************************************************************************)
RECURSIVE StripNode(_)
StripNode(n) ==
    CASE n.k = "Array" ->
           Array([i \in 1..Len(n.c) |-> Yaml(NoMarker, StripNode(n.c[i].n))])
      [] n.k = "Hash" ->
           Hash([i \in 1..Len(n.c) |->
                   [key  |-> StripNode(n.c[i].key),
                    item |-> HashItem(NoMarker,
                                      Yaml(NoMarker, StripNode(n.c[i].item.value.n)))]])
      [] OTHER -> n

NodeEq(a, b) == StripNode(a) = StripNode(b)

\* #[derive(PartialEq)] on Node, variant by variant: a Vec element by element
\* through Yaml's eq, a LinkedHashMap by length and then entry by entry in
\* iteration order through the key's eq and HashItem's eq
RECURSIVE node_eq(_, _)
node_eq(a, b) ==
    /\ a.k = b.k
    /\ CASE a.k \in {"Real", "String"} -> a.s = b.s
         [] a.k = "Integer" -> a.i = b.i
         [] a.k = "Boolean" -> a.b = b.b
         [] a.k = "Array" ->
              /\ Len(a.c) = Len(b.c)
              /\ \A i \in 1..Len(a.c) : node_eq(a.c[i].n, b.c[i].n)
         [] a.k = "Hash" ->
              /\ Len(a.c) = Len(b.c)
              /\ \A i \in 1..Len(a.c) :
                    /\ node_eq(a.c[i].key, b.c[i].key)
                    /\ node_eq(a.c[i].item.value.n, b.c[i].item.value.n)
         [] OTHER -> TRUE

\* impl PartialEq for Yaml / for HashItem
yaml_eq(a, b) == node_eq(a.n, b.n)

item_eq(a, b) == yaml_eq(a.value, b.value)

(***************************************************************************)
(* Ordering of Node.  The derived Ord orders the variants as declared and  *)
(* equal variants by payload: texts bytewise, i64 signed, Vec and          *)
(* LinkedHashMap element by element and then by length.  An Ordering is    *)
(* one of "Less", "Equal", "Greater".                                      *)
(***************************************************************************)
Ascii ==
    { [first |-> 32, chars |-> " !"],
      [first |-> 35, chars |-> "#$%&'()*+,-./0123456789:;<=>?@ABCDEFGHIJKLMNOPQRSTUVWXYZ[\\]^_"],
      [first |-> 97, chars |-> "abcdefghijklmnopqrstuvwxyz{|}~"] }

\* the byte of an ASCII character
byte(c) ==
    CHOOSE n \in 32..126 :
        \E run \in Ascii : \E i \in 1..Len(run.chars) :
            Char(run.chars, i) = c /\ n = run.first + i - 1

int_cmp(x, y) == IF x < y THEN "Less" ELSE IF x > y THEN "Greater" ELSE "Equal"

\* Ordering::then
then(o, p) == IF o = "Equal" THEN p ELSE o

\* impl Ord for str
RECURSIVE str_cmp(_, _)
str_cmp(a, b) ==
    IF a = "" \/ b = "" THEN int_cmp(Len(a), Len(b))
    ELSE then(int_cmp(byte(Char(a, 1)), byte(Char(b, 1))), str_cmp(Rest(a, 2), Rest(b, 2)))

\* impl Ord for i64, on the two's complement patterns
i64_cmp(a, b) ==
    then(int_cmp((a[1] + SignLimb) % LimbBase, (b[1] + SignLimb) % LimbBase),
         then(int_cmp(a[2], b[2]), then(int_cmp(a[3], b[3]), int_cmp(a[4], b[4]))))

bool_cmp(a, b) == IF a = b THEN "Equal" ELSE IF b THEN "Less" ELSE "Greater"

\* the position of a variant in the declaration of Node
discriminant(k) ==
    CASE k = "Real" -> 0 [] k = "Integer" -> 1 [] k = "String" -> 2
      [] k = "Boolean" -> 3 [] k = "Array" -> 4 [] k = "Hash" -> 5
      [] k = "Null" -> 7 [] k = "BadValue" -> 8

RECURSIVE node_cmp(_, _)
RECURSIVE vec_cmp(_, _)
RECURSIVE hash_cmp(_, _)

\* yaml_cmp as the derived Ord of a struct would be: marker first
yaml_cmp_derived(a, b) == then(int_cmp(a.m, b.m), node_cmp(a.n, b.n))

\* impl Ord for Yaml
yaml_cmp(a, b) == node_cmp(a.n, b.n)

\* impl Ord for HashItem
item_cmp(a, b) == yaml_cmp(a.value, b.value)

\* impl Ord for Vec<Yaml>
vec_cmp(a, b) ==
    IF a = <<>> \/ b = <<>> THEN int_cmp(Len(a), Len(b))
    ELSE then(yaml_cmp(Head(a), Head(b)), vec_cmp(Tail(a), Tail(b)))

\* impl Ord for LinkedHashMap<Node, HashItem>: the entries (key, item) in iteration order
hash_cmp(a, b) ==
    IF a = <<>> \/ b = <<>> THEN int_cmp(Len(a), Len(b))
    ELSE then(then(node_cmp(Head(a).key, Head(b).key), item_cmp(Head(a).item, Head(b).item)),
              hash_cmp(Tail(a), Tail(b)))

\* #[derive(Ord)] on Node
node_cmp(a, b) ==
    IF a.k # b.k THEN int_cmp(discriminant(a.k), discriminant(b.k))
    ELSE CASE a.k \in {"Real", "String"} -> str_cmp(a.s, b.s)
           [] a.k = "Integer" -> i64_cmp(a.i, b.i)
           [] a.k = "Boolean" -> bool_cmp(a.b, b.b)
           [] a.k = "Array"   -> vec_cmp(a.c, b.c)
           [] a.k = "Hash"    -> hash_cmp(a.c, b.c)
           [] OTHER -> "Equal"

(***************************************************************************)
(* Hashing of Node: what hash() writes to the Hasher, in order.            *)
(***************************************************************************)
Written(t, n, s, i) == [t |-> t, n |-> n, s |-> s, i |-> i]

RECURSIVE node_hash(_)
RECURSIVE vec_hash(_)
RECURSIVE entries_hash(_)

\* impl Hash for Yaml
yaml_hash(y) == node_hash(y.n)

\* impl Hash for HashItem
item_hash(it) == yaml_hash(it.value)

vec_hash(a) == IF a = <<>> THEN <<>> ELSE yaml_hash(Head(a)) \o vec_hash(Tail(a))

\* impl Hash for LinkedHashMap: every entry (key, item), no length
entries_hash(h) ==
    IF h = <<>> THEN <<>>
    ELSE node_hash(Head(h).key) \o item_hash(Head(h).item) \o entries_hash(Tail(h))

\* #[derive(Hash)] on Node: the discriminant, then the payload
node_hash(n) ==
    <<Written("discriminant", discriminant(n.k), "", Zero64)>> \o
    CASE n.k \in {"Real", "String"} -> <<Written("str", 0, n.s, Zero64)>>
      [] n.k = "Integer" -> <<Written("i64", 0, "", n.i)>>
      [] n.k = "Boolean" -> <<Written("bool", IF n.b THEN 1 ELSE 0, "", Zero64)>>
      [] n.k = "Array"   -> <<Written("len", Len(n.c), "", Zero64)>> \o vec_hash(n.c)
      [] n.k = "Hash"    -> entries_hash(n.c)
      [] OTHER -> <<>>

(***************************************************************************)
(* LinkedHashMap<Node, HashItem>.                                          *)
(***************************************************************************)
HashFind(h, key) == { i \in 1..Len(h) : NodeEq(h[i].key, key) }

Without(h, i) == SubSeq(h, 1, i - 1) \o SubSeq(h, i + 1, Len(h))

\* LinkedHashMap::insert: a new key is appended; for a key already present the
\* stored value is replaced and the entry moves to the back of the iteration order
hash_insert(h, key, item) ==
    IF HashFind(h, key) = {}
    THEN Append(h, [key |-> key, item |-> item])
    ELSE LET i == CHOOSE j \in HashFind(h, key) : TRUE
         IN  Append(Without(h, i), [key |-> h[i].key, item |-> item])

\* LinkedHashMap::get
hash_get(h, key) ==
    IF HashFind(h, key) = {}
    THEN [some |-> FALSE, item |-> HashItem(NoMarker, Yaml(NoMarker, BadValue))]
    ELSE [some |-> TRUE, item |-> h[CHOOSE j \in HashFind(h, key) : TRUE].item]

(***************************************************************************)
(* YamlLoader.                                                             *)
(***************************************************************************)
VARIABLES
    docs,        \* Vec<Yaml>: the finished documents
    doc_stack,   \* Vec<(Yaml, usize)>: open nodes, each [y |-> Yaml, aid |-> anchor id]
    key_stack,   \* Vec<Yaml>: one pending key per open mapping
    anchor_map,  \* BTreeMap<usize, Yaml>
    panicked,    \* an unwrap() of None or an unreachable!() was hit
    phase,       \* the event source: where it is in the stream grammar
    open,        \* the event source: its open containers, [kind, n children, anchor]
    nev,         \* events delivered so far; the marker of an event is its ordinal
    nodes,       \* node events delivered so far
    last,        \* the event delivered last
    history,     \* per document begun: its first event, its root event, markers copied in
    declared,    \* the anchor ids of the nodes closed so far
    cur,         \* the Yaml an index chain has reached
    path,        \* the index steps taken on the finished documents
    got,         \* what the accessors gave for cur
    lhs,         \* the two Yaml a caller compares
    rhs,
    verdict      \* what ==, cmp and hash gave for them

loader == <<docs, doc_stack, key_stack, anchor_map, panicked>>

source == <<phase, open, nev, nodes, last, history, declared>>

reader == <<cur, path, got>>

compared == <<lhs, rhs, verdict>>

vars == <<docs, doc_stack, key_stack, anchor_map, panicked,
          phase, open, nev, nodes, last, history, declared, cur, path, got,
          lhs, rhs, verdict>>

Self == [docs |-> docs, doc_stack |-> doc_stack, key_stack |-> key_stack,
         anchor_map |-> anchor_map, panicked |-> panicked]

Top(s) == s[Len(s)]

Pop(s) == SubSeq(s, 1, Len(s) - 1)

ReplaceTop(s, e) == [s EXCEPT ![Len(s)] = e]

Panic(self) == [self EXCEPT !.panicked = TRUE]

\* BTreeMap::insert
map_insert(m, id, y) == [i \in DOMAIN m \cup {id} |-> IF i = id THEN y ELSE m[i]]

\* YamlLoader::insert_new_node, node = [y |-> Yaml, aid |-> anchor id]
insert_new_node(self, node) ==
    LET s1 == IF node.aid > 0
              THEN [self EXCEPT !.anchor_map = map_insert(@, node.aid, node.y)]
              ELSE self
    IN  IF s1.doc_stack = <<>>
        THEN [s1 EXCEPT !.doc_stack = Append(@, node)]
        ELSE LET parent == Top(s1.doc_stack)
             IN  CASE parent.y.n.k = "Array" ->
                        [s1 EXCEPT !.doc_stack = ReplaceTop(@,
                            [parent EXCEPT !.y.n.c = Append(@, node.y)])]
                   [] parent.y.n.k = "Hash" ->
                        IF s1.key_stack = <<>> THEN Panic(s1)
                        ELSE LET cur_key == Top(s1.key_stack)
                             IN  IF is_badvalue(cur_key.n)
                                 THEN [s1 EXCEPT !.key_stack = ReplaceTop(@, node.y)]
                                 ELSE [s1 EXCEPT
                                         !.key_stack = ReplaceTop(@, Yaml(NoMarker, BadValue)),
                                         !.doc_stack = ReplaceTop(@,
                                            [parent EXCEPT !.y.n.c =
                                               hash_insert(@, cur_key.n,
                                                           HashItem(NoMarker, node.y))])]
                   [] OTHER -> Panic(s1)

\* on_DocumentEnd that leaves the root on the stack
on_DocumentEnd_keep(self) ==
    IF Len(self.doc_stack) = 0
    THEN [self EXCEPT !.docs = Append(@, Yaml(NoMarker, BadValue))]
    ELSE IF Len(self.doc_stack) = 1
    THEN [self EXCEPT !.docs = Append(@, Top(self.doc_stack).y)]
    ELSE Panic(self)

\* on_DocumentEnd that skips the empty document
on_DocumentEnd_skip(self) ==
    IF Len(self.doc_stack) = 0
    THEN self
    ELSE IF Len(self.doc_stack) = 1
    THEN [self EXCEPT !.docs = Append(@, Top(self.doc_stack).y),
                      !.doc_stack = Pop(@)]
    ELSE Panic(self)

\* on_DocumentEnd that drops the anchors of the document it ends
on_DocumentEnd_forgets(self) ==
    IF Len(self.doc_stack) = 0
    THEN [self EXCEPT !.docs = Append(@, Yaml(NoMarker, BadValue)),
                      !.anchor_map = <<>>]
    ELSE IF Len(self.doc_stack) = 1
    THEN [self EXCEPT !.docs = Append(@, Top(self.doc_stack).y),
                      !.doc_stack = Pop(@),
                      !.anchor_map = <<>>]
    ELSE Panic(self)

\* on_event, Event::DocumentEnd
on_DocumentEnd(self) ==
    IF Len(self.doc_stack) = 0
    THEN [self EXCEPT !.docs = Append(@, Yaml(NoMarker, BadValue))]
    ELSE IF Len(self.doc_stack) = 1
    THEN [self EXCEPT !.docs = Append(@, Top(self.doc_stack).y),
                      !.doc_stack = Pop(@)]
    ELSE Panic(self)

\* on_SequenceStart that pushes a pending-key slot, as a mapping does
on_SequenceStart_with_slot(self, aid, mark) ==
    [self EXCEPT !.doc_stack = Append(@, [y |-> Yaml(mark, Array(<<>>)), aid |-> aid]),
                 !.key_stack = Append(@, Yaml(mark, BadValue))]

\* on_event, Event::SequenceStart(aid)
on_SequenceStart(self, aid, mark) ==
    [self EXCEPT !.doc_stack = Append(@, [y |-> Yaml(mark, Array(<<>>)), aid |-> aid])]

\* on_event, Event::SequenceEnd
on_SequenceEnd(self) ==
    IF self.doc_stack = <<>> THEN Panic(self)
    ELSE insert_new_node([self EXCEPT !.doc_stack = Pop(@)], Top(self.doc_stack))

\* on_MappingStart that binds the anchor when the mapping opens
on_MappingStart_binds(self, aid, mark) ==
    [self EXCEPT !.doc_stack = Append(@, [y |-> Yaml(mark, Hash(<<>>)), aid |-> aid]),
                 !.key_stack = Append(@, Yaml(mark, BadValue)),
                 !.anchor_map = IF aid > 0 THEN map_insert(@, aid, Yaml(mark, Hash(<<>>)))
                                ELSE @]

\* on_event, Event::MappingStart(aid)
on_MappingStart(self, aid, mark) ==
    [self EXCEPT !.doc_stack = Append(@, [y |-> Yaml(mark, Hash(<<>>)), aid |-> aid]),
                 !.key_stack = Append(@, Yaml(mark, BadValue))]

\* on_MappingEnd that leaves the pending-key slot on its stack
on_MappingEnd_keep_key(self) ==
    IF self.key_stack = <<>> \/ self.doc_stack = <<>> THEN Panic(self)
    ELSE insert_new_node([self EXCEPT !.doc_stack = Pop(@)], Top(self.doc_stack))

\* on_event, Event::MappingEnd
on_MappingEnd(self) ==
    IF self.key_stack = <<>> \/ self.doc_stack = <<>> THEN Panic(self)
    ELSE insert_new_node([self EXCEPT !.key_stack = Pop(@), !.doc_stack = Pop(@)],
                         Top(self.doc_stack))

\* on_event, Event::Scalar(v, style, aid, tag)
on_Scalar(self, ev, mark) ==
    insert_new_node(self, [y   |-> Yaml(mark, ScalarNode(ev.v, ev.style, ev.tag)),
                           aid |-> ev.aid])

\* on_Alias that copies the anchored node without its children
on_Alias_shallow(self, id, mark) ==
    insert_new_node(self, [y   |-> IF id \in DOMAIN self.anchor_map
                                   THEN [self.anchor_map[id] EXCEPT !.n.c = <<>>]
                                   ELSE Yaml(mark, BadValue),
                           aid |-> 0])

\* on_Alias that unwraps the lookup
on_Alias_unwrap(self, id, mark) ==
    IF id \in DOMAIN self.anchor_map
    THEN insert_new_node(self, [y |-> self.anchor_map[id], aid |-> 0])
    ELSE Panic(self)

\* on_event, Event::Alias(id)
on_Alias(self, id, mark) ==
    insert_new_node(self, [y   |-> IF id \in DOMAIN self.anchor_map
                                   THEN self.anchor_map[id]
                                   ELSE Yaml(mark, BadValue),
                           aid |-> 0])

\* on_event that forgets the anchors of the documents before at a Document start
on_event_fresh_anchors(self, ev, mark) ==
    CASE ev.type = "DocumentStart" -> [self EXCEPT !.anchor_map = <<>>]
      [] ev.type = "DocumentEnd"   -> on_DocumentEnd(self)
      [] ev.type = "SequenceStart" -> on_SequenceStart(self, ev.aid, mark)
      [] ev.type = "SequenceEnd"   -> on_SequenceEnd(self)
      [] ev.type = "MappingStart"  -> on_MappingStart(self, ev.aid, mark)
      [] ev.type = "MappingEnd"    -> on_MappingEnd(self)
      [] ev.type = "Scalar"        -> on_Scalar(self, ev, mark)
      [] ev.type = "Alias"         -> on_Alias(self, ev.aid, mark)
      [] OTHER -> self

\* YamlLoader::on_event; ev = [type, v, style, aid, tag], mark the event's marker
on_event(self, ev, mark) ==
    CASE ev.type = "DocumentStart" -> self
      [] ev.type = "DocumentEnd"   -> on_DocumentEnd(self)
      [] ev.type = "SequenceStart" -> on_SequenceStart(self, ev.aid, mark)
      [] ev.type = "SequenceEnd"   -> on_SequenceEnd(self)
      [] ev.type = "MappingStart"  -> on_MappingStart(self, ev.aid, mark)
      [] ev.type = "MappingEnd"    -> on_MappingEnd(self)
      [] ev.type = "Scalar"        -> on_Scalar(self, ev, mark)
      [] ev.type = "Alias"         -> on_Alias(self, ev.aid, mark)
      [] OTHER -> self

\* YamlLoader::load_from_str: the loader before the first event
NewLoader == [docs |-> <<>>, doc_stack |-> <<>>, key_stack |-> <<>>,
              anchor_map |-> <<>>, panicked |-> FALSE]

(***************************************************************************)
(* Index.                                                                  *)
(***************************************************************************)
BAD_VALUE == Yaml(NoMarker, BadValue)

\* a usize small enough to be a Vec position, as a number; -1 when it is larger
SmallIndex(idx) == IF idx[1] = 0 /\ idx[2] = 0 THEN idx[3] * LimbBase + idx[4] ELSE -1

\* impl Index<&str> for Node
index_str(self, idx) ==
    LET key == String(idx)
    IN  IF self.k = "Hash"
        THEN IF hash_get(self.c, key).some THEN hash_get(self.c, key).item.value
             ELSE BAD_VALUE
        ELSE BAD_VALUE

\* index_usize that looks into sequences only
index_usize_seq_only(self, idx) ==
    IF self.k = "Array" /\ SmallIndex(idx) >= 0 /\ SmallIndex(idx) < Len(self.c)
    THEN self.c[SmallIndex(idx) + 1]
    ELSE BAD_VALUE

\* impl Index<usize> for Node; idx is the 64-bit usize and `idx as i64` keeps its bits
index_usize(self, idx) ==
    IF self.k = "Array"
    THEN IF SmallIndex(idx) >= 0 /\ SmallIndex(idx) < Len(self.c)
         THEN self.c[SmallIndex(idx) + 1]
         ELSE BAD_VALUE
    ELSE IF self.k = "Hash"
    THEN LET key == Integer(idx)
         IN  IF hash_get(self.c, key).some THEN hash_get(self.c, key).item.value
             ELSE BAD_VALUE
    ELSE BAD_VALUE

(***************************************************************************)
(* The accessors of Node.  An Option is [some, v]; v is the node whose     *)
(* payload the accessor hands out.  The float accessors give the class of  *)
(* the f64, as parse_f64 does.                                             *)
(***************************************************************************)
Some(n) == [some |-> TRUE, v |-> n]

None == [some |-> FALSE, v |-> BadValue]

\* define_as that hands out a default for every other variant
define_as_or_default(self, yt) == Some(self)

\* macro define_as / define_as_ref / define_into: the match on one variant
define_as(self, yt) == IF self.k = yt THEN Some(self) ELSE None

as_bool(self) == define_as(self, "Boolean")

as_i64(self) == define_as(self, "Integer")

as_str(self) == define_as(self, "String")

as_hash(self) == define_as(self, "Hash")

as_vec(self) == define_as(self, "Array")

into_bool(self) == define_as(self, "Boolean")

into_i64(self) == define_as(self, "Integer")

into_string(self) == define_as(self, "String")

into_hash(self) == define_as(self, "Hash")

into_vec(self) == define_as(self, "Array")

as_f64(self) == IF self.k = "Real" THEN parse_f64(self.s) ELSE [ok |-> FALSE, cls |-> "none"]

into_f64(self) == IF self.k = "Real" THEN parse_f64(self.s) ELSE [ok |-> FALSE, cls |-> "none"]

\* every accessor applied to one node
Conversions(self) ==
    [done |-> TRUE,
     as_bool |-> as_bool(self), as_i64 |-> as_i64(self), as_str |-> as_str(self),
     as_hash |-> as_hash(self), as_vec |-> as_vec(self), as_f64 |-> as_f64(self),
     into_bool |-> into_bool(self), into_i64 |-> into_i64(self),
     into_string |-> into_string(self), into_hash |-> into_hash(self),
     into_vec |-> into_vec(self), into_f64 |-> into_f64(self)]

NoConversions == [done |-> FALSE]

(***************************************************************************)
(* The event source.  It delivers a grammatically well-formed stream:      *)
(* stream start, documents, stream end; a document is a document start,    *)
(* at most one root node and a document end; a mapping is closed after an  *)
(* even number of children.                                                *)
(***************************************************************************)
Event(type, v, style, aid, tag) ==
    [type |-> type, v |-> v, style |-> style, aid |-> aid, tag |-> tag]

Plain(v) == [v |-> v, style |-> "Plain", tag |-> NoTag]

Tagged(v, suffix) == [v |-> v, style |-> "Plain", tag |-> Tag("!!", suffix)]

NoEvent == Event("None", "", "Plain", 0, NoTag)

IsNodeEvent(ev) == ev.type \in {"Scalar", "Alias", "SequenceStart", "MappingStart"}

ClosesNode(ev) == ev.type \in {"Scalar", "Alias", "SequenceEnd", "MappingEnd"}

\* The stream grammar admits ev in the source's present state
WellFormed(ev) ==
    CASE ev.type = "StreamStart"   -> phase = "start"
      [] ev.type = "StreamEnd"     -> phase = "stream"
      [] ev.type = "DocumentStart" -> phase = "stream"
      [] ev.type = "DocumentEnd"   -> phase = "root" \/ (phase = "doc" /\ open = <<>>)
      [] IsNodeEvent(ev) -> phase = "doc"
      [] ev.type = "SequenceEnd" ->
           phase = "doc" /\ open # <<>> /\ Top(open).kind = "seq"
      [] ev.type = "MappingEnd" ->
           phase = "doc" /\ open # <<>> /\ Top(open).kind = "map" /\ Top(open).n % 2 = 0
      [] OTHER -> FALSE

\* the open containers after ev
OpenAfter(ev) ==
    LET popped == IF ev.type \in {"SequenceEnd", "MappingEnd"} THEN Pop(open) ELSE open
    IN  CASE ev.type = "SequenceStart" ->
               Append(open, [kind |-> "seq", n |-> 0, aid |-> ev.aid])
          [] ev.type = "MappingStart" ->
               Append(open, [kind |-> "map", n |-> 0, aid |-> ev.aid])
          [] ClosesNode(ev) /\ popped # <<>> ->
               ReplaceTop(popped, [Top(popped) EXCEPT !.n = @ + 1])
          [] OTHER -> popped

PhaseAfter(ev) ==
    CASE ev.type = "StreamStart"   -> "stream"
      [] ev.type = "StreamEnd"     -> "end"
      [] ev.type = "DocumentStart" -> "doc"
      [] ev.type = "DocumentEnd"   -> "stream"
      [] ClosesNode(ev) /\ OpenAfter(ev) = <<>> -> "root"
      [] OTHER -> phase

\* the markers of a tree
RECURSIVE Markers(_)
Markers(y) ==
    {y.m} \cup
    CASE y.n.k = "Array" -> UNION { Markers(y.n.c[i]) : i \in 1..Len(y.n.c) }
      [] y.n.k = "Hash"  ->
           UNION { Markers(Yaml(y.n.c[i].item.key_marker, y.n.c[i].key))
                     \cup Markers(y.n.c[i].item.value) : i \in 1..Len(y.n.c) }
      [] OTHER -> {}

NoRoot == [type |-> "None", m |-> 0]

\* per document: the ordinal of its document start, its root event with that
\* event's ordinal, and the markers that alias events copied into it
HistoryAfter(ev) ==
    CASE ev.type = "DocumentStart" ->
           Append(history, [first |-> nev + 1, root |-> NoRoot, copied |-> {}])
      [] IsNodeEvent(ev) ->
           LET h  == Top(history)
               h1 == IF h.root = NoRoot
                     THEN [h EXCEPT !.root = [type |-> ev.type, m |-> nev + 1]]
                     ELSE h
               h2 == IF ev.type = "Alias" /\ ev.aid \in DOMAIN anchor_map
                     THEN [h1 EXCEPT !.copied = @ \cup Markers(anchor_map[ev.aid])]
                     ELSE h1
           IN  ReplaceTop(history, h2)
      [] OTHER -> history

\* the anchor ids whose node has closed, after ev
DeclaredAfter(ev) ==
    CASE ev.type = "Scalar" -> declared \cup ({ev.aid} \ {0})
      [] ev.type \in {"SequenceEnd", "MappingEnd"} -> declared \cup ({Top(open).aid} \ {0})
      [] OTHER -> declared

\* on_event takes &mut self: the loader is what the handler leaves
Becomes(after) ==
    /\ docs' = after.docs
    /\ doc_stack' = after.doc_stack
    /\ key_stack' = after.key_stack
    /\ anchor_map' = after.anchor_map
    /\ panicked' = after.panicked

\* One event: the source delivers ev and the loader's on_event handles it
Deliver(ev) ==
    /\ ~panicked
    /\ WellFormed(ev)
    /\ Becomes(on_event(Self, ev, nev + 1))
    /\ phase' = PhaseAfter(ev)
    /\ open' = OpenAfter(ev)
    /\ nev' = nev + 1
    /\ nodes' = IF IsNodeEvent(ev) THEN nodes + 1 ELSE nodes
    /\ last' = ev
    /\ history' = HistoryAfter(ev)
    /\ declared' = DeclaredAfter(ev)
    /\ UNCHANGED <<reader, compared>>

\* the result of one comparison: the key markers the two Yaml were wrapped with as
\* HashItems (NoMarker when compared bare), ==, cmp and the two hashes
Verdict(done, ka, kb, eq, ord, ha, hb) ==
    [done |-> done, ka |-> ka, kb |-> kb, eq |-> eq, ord |-> ord, ha |-> ha, hb |-> hb]

NoVerdict == [done |-> "none"]

Init ==
    /\ docs = NewLoader.docs
    /\ doc_stack = NewLoader.doc_stack
    /\ key_stack = NewLoader.key_stack
    /\ anchor_map = NewLoader.anchor_map
    /\ panicked = NewLoader.panicked
    /\ phase = "start"
    /\ open = <<>>
    /\ nev = 0
    /\ nodes = 0
    /\ last = NoEvent
    /\ history = <<>>
    /\ declared = {}
    /\ cur = BAD_VALUE
    /\ path = <<>>
    /\ got = NoConversions
    /\ lhs = BAD_VALUE
    /\ rhs = BAD_VALUE
    /\ verdict = NoVerdict

(***************************************************************************)
(* The events as actions.  limit bounds the node events of the stream,     *)
(* depth the open containers, and the sets give the inputs drawn.          *)
(***************************************************************************)
StreamStart == Deliver(Event("StreamStart", "", "Plain", 0, NoTag))

StreamEnd == Deliver(Event("StreamEnd", "", "Plain", 0, NoTag))

DocumentStart(limit) ==
    Len(history) < limit /\ Deliver(Event("DocumentStart", "", "Plain", 0, NoTag))

DocumentEnd == Deliver(Event("DocumentEnd", "", "Plain", 0, NoTag))

SequenceStart(limit, depth, aids) ==
    \E aid \in aids :
        /\ nodes < limit /\ Len(open) < depth
        /\ Deliver(Event("SequenceStart", "", "Plain", aid, NoTag))

SequenceEnd == Deliver(Event("SequenceEnd", "", "Plain", 0, NoTag))

MappingStart(limit, depth, aids) ==
    \E aid \in aids :
        /\ nodes < limit /\ Len(open) < depth
        /\ Deliver(Event("MappingStart", "", "Plain", aid, NoTag))

MappingEnd == Deliver(Event("MappingEnd", "", "Plain", 0, NoTag))

Scalar(limit, inputs, aids) ==
    \E s \in inputs, aid \in aids :
        nodes < limit /\ Deliver(Event("Scalar", s.v, s.style, aid, s.tag))

Alias(limit, aids) ==
    \E id \in aids \ {0} : nodes < limit /\ Deliver(Event("Alias", "", "Plain", id, NoTag))

(***************************************************************************)
(* The reader: index chains on the documents load_from_str returned.       *)
(***************************************************************************)
StrKeys == {"a", "b"}

IntKeys == {I64(0), I64(1), Neg64(I64(1))}

Loaded == phase = "end" /\ ~panicked

\* one step of the reader: the document taken or the index applied, and its receiver
Hop(t, d, s, i, recv) == [t |-> t, d |-> d, s |-> s, i |-> i, recv |-> recv]

\* the reader takes a document of the returned list
Take ==
    /\ Loaded /\ path = <<>>
    /\ \E d \in 1..Len(docs) :
          /\ cur' = docs[d]
          /\ path' = <<Hop("doc", d, "", Zero64, BAD_VALUE)>>
    /\ got' = NoConversions
    /\ UNCHANGED <<loader, source, compared>>

\* cur = &cur[idx] for a &str idx
IndexStr ==
    /\ Loaded /\ path # <<>> /\ Len(path) <= MaxChain
    /\ \E k \in StrKeys :
          /\ cur' = index_str(cur.n, k)
          /\ path' = Append(path, Hop("str", 0, k, Zero64, cur))
    /\ got' = NoConversions
    /\ UNCHANGED <<loader, source, compared>>

\* cur = &cur[idx] for a usize idx
IndexUsize ==
    /\ Loaded /\ path # <<>> /\ Len(path) <= MaxChain
    /\ \E i \in IntKeys :
          /\ cur' = index_usize(cur.n, i)
          /\ path' = Append(path, Hop("usize", 0, "", i, cur))
    /\ got' = NoConversions
    /\ UNCHANGED <<loader, source, compared>>

\* the reader applies the accessors to the Yaml it has reached
Convert ==
    /\ Loaded /\ path # <<>> /\ ~got.done
    /\ got' = Conversions(cur.n)
    /\ UNCHANGED <<loader, source, compared, cur, path>>

(***************************************************************************)
(* The caller that compares two values it holds: a == b, a.cmp(&b) and     *)
(* the hashes, on two Yaml and on two HashItems wrapping them.             *)
(***************************************************************************)
CompareYaml ==
    /\ verdict.done = "none"
    /\ verdict' = Verdict("yaml", NoMarker, NoMarker, yaml_eq(lhs, rhs), yaml_cmp(lhs, rhs),
                          yaml_hash(lhs), yaml_hash(rhs))
    /\ UNCHANGED <<loader, source, reader, lhs, rhs>>

CompareItems(marks) ==
    /\ verdict.done = "none"
    /\ \E ka, kb \in marks :
          verdict' = Verdict("item", ka, kb,
                             item_eq(HashItem(ka, lhs), HashItem(kb, rhs)),
                             item_cmp(HashItem(ka, lhs), HashItem(kb, rhs)),
                             item_hash(HashItem(ka, lhs)), item_hash(HashItem(kb, rhs)))
    /\ UNCHANGED <<loader, source, reader, lhs, rhs>>

(***************************************************************************)
(* Spec: the builder on every well-formed stream within the bounds.        *)
(***************************************************************************)
\* anchor ids of the events: none, and one id that nodes declare and aliases name
AnchorIds == {0, 1}

\* scalars of the builder specification: a String, an Integer and a BadValue
ScalarInputs == {Plain("a"), Plain("0"), Tagged("a", "int")}

Next ==
    \/ StreamStart
    \/ StreamEnd
    \/ DocumentStart(MaxDocs)
    \/ DocumentEnd
    \/ SequenceStart(MaxNodes, MaxDepth, AnchorIds)
    \/ SequenceEnd
    \/ MappingStart(MaxNodes, MaxDepth, AnchorIds)
    \/ MappingEnd
    \/ Scalar(MaxNodes, ScalarInputs, AnchorIds)
    \/ Alias(MaxNodes, AnchorIds)

Spec == Init /\ [][Next]_vars

(***************************************************************************)
(* SpecIndex: streams without anchors, then index chains on the result.    *)
(***************************************************************************)
NextIndex ==
    \/ StreamStart
    \/ StreamEnd
    \/ DocumentStart(MaxDocs)
    \/ DocumentEnd
    \/ SequenceStart(MaxNodes, MaxDepth, {0})
    \/ SequenceEnd
    \/ MappingStart(MaxNodes, MaxDepth, {0})
    \/ MappingEnd
    \/ Scalar(MaxNodes, ScalarInputs, {0})
    \/ Take
    \/ IndexStr
    \/ IndexUsize

SpecIndex == Init /\ [][NextIndex]_vars

(***************************************************************************)
(* SpecAccess: documents of at most three nodes, one container deep, then  *)
(* index chains and the accessors on what a chain has reached.             *)
(***************************************************************************)
NextAccess ==
    \/ StreamStart
    \/ StreamEnd
    \/ DocumentStart(MaxDocs)
    \/ DocumentEnd
    \/ SequenceStart(3, 1, {0})
    \/ SequenceEnd
    \/ MappingStart(3, 1, {0})
    \/ MappingEnd
    \/ Scalar(3, ScalarInputs, {0})
    \/ Take
    \/ IndexStr
    \/ IndexUsize
    \/ Convert

SpecAccess == Init /\ [][NextAccess]_vars

(***************************************************************************)
(* SpecKeys: one document, a flat mapping of up to MaxPairs pairs.         *)
(***************************************************************************)
KeyInputs == {Plain("b"), Plain("a"), Tagged("a", "int")}

NextKeys ==
    \/ StreamStart
    \/ StreamEnd
    \/ DocumentStart(1)
    \/ DocumentEnd
    \/ MappingStart(1, 1, {0})
    \/ MappingEnd
    \/ Scalar(1 + 2 * MaxPairs, KeyInputs, {0})

SpecKeys == Init /\ [][NextKeys]_vars

(***************************************************************************)
(* SpecIntKeys: one document, a flat mapping whose keys and values are     *)
(* integers of either sign or a string, then indexed by usize.             *)
(***************************************************************************)
IntKeyInputs == {Plain("1"), Plain("-1"), Plain("a")}

NextIntKeys ==
    \/ StreamStart
    \/ StreamEnd
    \/ DocumentStart(1)
    \/ DocumentEnd
    \/ MappingStart(1, 1, {0})
    \/ MappingEnd
    \/ Scalar(1 + 2 * MaxPairs, IntKeyInputs, {0})
    \/ Take
    \/ IndexUsize

SpecIntKeys == Init /\ [][NextIntKeys]_vars

(***************************************************************************)
(* SpecCompare: two Yaml drawn from Values, then compared.  Values holds   *)
(* scalars, sequences, mappings and a sequence of a mapping, each under    *)
(* every choice of markers and key markers from Marks.                     *)
(***************************************************************************)
Marks == {NoMarker, 1}

ScalarNodes ==
    {String("a"), String("b"), String("B"), String(""), Real("a"),
     Integer(I64(0)), Integer(I64(1)), Integer(Neg64(I64(1))),
     Boolean(TRUE), Boolean(FALSE), Null, BadValue}

InnerNodes == {String("a"), Integer(I64(0))}

Marked(ns) == { Yaml(m, n) : m \in Marks, n \in ns }

Entries ==
    { [key |-> k, item |-> HashItem(km, y)] : k \in InnerNodes, km \in Marks, y \in Marked(InnerNodes) }

Values ==
    Marked(ScalarNodes)
    \cup Marked({ Array(a) : a \in {<<>>} \cup { <<y>> : y \in Marked(InnerNodes) }
                                    \cup { <<y, z>> : y \in Marked({String("a")}),
                                                      z \in Marked(InnerNodes) } })
    \cup Marked({ Hash(h) : h \in {<<>>} \cup { <<e>> : e \in Entries } })
    \cup Marked({ Array(<<Yaml(m, Hash(<<e>>))>>) : m \in Marks,
                   e \in { x \in Entries : x.key = String("a") } })

InitCompare ==
    /\ docs = NewLoader.docs
    /\ doc_stack = NewLoader.doc_stack
    /\ key_stack = NewLoader.key_stack
    /\ anchor_map = NewLoader.anchor_map
    /\ panicked = NewLoader.panicked
    /\ phase = "start"
    /\ open = <<>>
    /\ nev = 0
    /\ nodes = 0
    /\ last = NoEvent
    /\ history = <<>>
    /\ declared = {}
    /\ cur = BAD_VALUE
    /\ path = <<>>
    /\ got = NoConversions
    /\ lhs \in Values
    /\ rhs \in Values
    /\ verdict = NoVerdict

NextCompare ==
    \/ CompareYaml
    \/ CompareItems(Marks)

SpecCompare == InitCompare /\ [][NextCompare]_vars

(***************************************************************************)
(* SpecResolve: one document holding one scalar, drawn from every text     *)
(* over Alphabet up to MaxLen and the texts of SpecialTexts, in every      *)
(* style and under every tag of ResolverTags.                              *)
(***************************************************************************)
Alphabet == {"0", "1", "8", "x", "o", "+", "-", ".", "e", "~"}

RECURSIVE TextsUpTo(_)
TextsUpTo(n) ==
    IF n = 0 THEN {""}
    ELSE TextsUpTo(n - 1) \cup { t \o c : t \in TextsUpTo(n - 1), c \in Alphabet }

SpecialTexts ==
    {"null", "true", "false", "True", "NULL", "string",
     ".inf", ".Inf", ".INF", "+.inf", "-.inf", "-.INF", ".nan", "NaN", ".NAN",
     ".NaN", ".iNf", "inf", "nan", "infinity", "1.23", "-1e4", "-321",
     "0xFF", "0o77", "+12345", "0x-1", "+-5",
     "9223372036854775807", "9223372036854775808", "+9223372036854775808",
     "-9223372036854775808", "-9223372036854775809", "18446744073709551616",
     "0x7FFFFFFFFFFFFFFF", "0x8000000000000000", "0x10000000000000000",
     "0o777777777777777777777", "0o1000000000000000000000"}

Styles == {"Plain", "SingleQuoted", "DoubleQuoted", "Literal", "Folded"}

CoreSuffixes == {"bool", "int", "float", "null"}

ResolverTags ==
    {NoTag, Tag("!", "int"), Tag("!!", "str")} \cup { Tag("!!", x) : x \in CoreSuffixes }

ResolverInputs ==
    { [v |-> t, style |-> st, tag |-> tg] :
        t \in TextsUpTo(MaxLen) \cup SpecialTexts, st \in Styles, tg \in ResolverTags }

NextResolve ==
    \/ StreamStart
    \/ StreamEnd
    \/ DocumentStart(1)
    \/ DocumentEnd
    \/ Scalar(1, ResolverInputs, {0})

SpecResolve == Init /\ [][NextResolve]_vars

(***************************************************************************)
(* SpecFloats: documents of at most three nodes, one container deep, whose *)
(* scalars are float texts, plain, tagged !!float and quoted, with anchors *)
(* and aliases; then index chains and the accessors on what they reach.    *)
(***************************************************************************)
FloatInputs ==
    {Plain("1.5"), Plain("+.INF"), Plain("1"), Tagged("1", "float"), Tagged("x", "float"),
     [v |-> "1.5", style |-> "DoubleQuoted", tag |-> NoTag]}

NextFloats ==
    \/ StreamStart
    \/ StreamEnd
    \/ DocumentStart(MaxDocs)
    \/ DocumentEnd
    \/ SequenceStart(3, 1, {0})
    \/ SequenceEnd
    \/ MappingStart(3, 1, {0})
    \/ MappingEnd
    \/ Scalar(3, FloatInputs, AnchorIds)
    \/ Alias(3, AnchorIds)
    \/ Take
    \/ IndexUsize
    \/ Convert

SpecFloats == Init /\ [][NextFloats]_vars

(***************************************************************************)
(* Properties.                                                             *)
(***************************************************************************)
\* the entries of a Hash node stored under a key with exactly this Node
EntriesUnder(recv, key) ==
    { j \in 1..Len(recv.c) : recv.k = "Hash" /\ recv.c[j].key = key }

\* the index step taken last and the node it was applied to
LastHop == Top(path)

Indexed == Len(path) > 1

\* the receiver of the last step stores cur under the key or position of the step
IsStringHit ==
    /\ LastHop.t = "str"
    /\ EntriesUnder(LastHop.recv.n, String(LastHop.s)) # {}

IsPositionHit ==
    /\ LastHop.t = "usize"
    /\ LastHop.recv.n.k = "Array"
    /\ SmallIndex(LastHop.i) >= 0
    /\ SmallIndex(LastHop.i) < Len(LastHop.recv.n.c)

IsIntegerKeyHit ==
    /\ LastHop.t = "usize"
    /\ EntriesUnder(LastHop.recv.n, Integer(LastHop.i)) # {}

StoredUnder(key) ==
    \E j \in EntriesUnder(LastHop.recv.n, key) : cur = LastHop.recv.n.c[j].item.value

RootScalar == last.type = "Scalar" /\ phase = "root" /\ Len(doc_stack) = 1

\* the node that scalar was resolved to
Resolved == Top(doc_stack).y.n

CoreTagged ==
    /\ RootScalar /\ last.style = "Plain"
    /\ last.tag.some /\ last.tag.handle = "!!" /\ last.tag.suffix \in CoreSuffixes

\* the kind a core tag asks for, and whether the text passes the tag's strict parse
KindOfTag(suffix) ==
    CASE suffix = "bool" -> "Boolean"
      [] suffix = "int" -> "Integer"
      [] suffix = "float" -> "Real"
      [] suffix = "null" -> "Null"

PassesStrict(suffix, v) ==
    CASE suffix = "bool" -> v \in {"true", "false"}
      [] suffix = "int" -> parse_i64(v).ok
      [] suffix = "float" -> parse_f64(v).ok
      [] suffix = "null" -> v \in {"~", "null"}

\* C2: a plain scalar under an explicit !!bool, !!int, !!float or !!null tag becomes
\* the value of that type when its text passes the type's strict parse and Invalid
\* when it does not; never a String, never the kind plain inference would give.
C2_ExplicitTagStrict ==
    CoreTagged =>
        /\ Resolved.k = IF PassesStrict(last.tag.suffix, last.v)
                        THEN KindOfTag(last.tag.suffix) ELSE "BadValue"
        /\ Resolved.k = "Boolean" => Resolved.b = (last.v = "true")
        /\ Resolved.k = "Integer" => Resolved.i = parse_i64(last.v).v
        /\ Resolved.k = "Real" => Resolved.s = last.v

\* `!!int string`: the tag's parse fails where inference would give a String
C2_Witness ==
    /\ CoreTagged /\ last.tag.suffix = "int" /\ last.v = "string"
    /\ Resolved = BadValue /\ from_str(last.v).k = "String"

\* C3: a scalar of a non-plain style is String(text) for every text and every tag,
\* and a plain scalar whose tag is not one of the four core tags is String(text)
\* even when its text would infer to another type.
C3_QuotingSuppressesInference ==
    /\ RootScalar /\ last.style # "Plain" => Resolved = String(last.v)
    /\ RootScalar /\ last.style = "Plain" /\ last.tag.some /\ ~CoreTagged
           => Resolved = String(last.v)

\* a single-quoted `0` under !!int, where both the tag and inference give Integer
C3_Witness ==
    /\ RootScalar /\ last.style = "SingleQuoted" /\ last.v = "0"
    /\ last.tag = Tag("!!", "int") /\ from_str(last.v).k = "Integer"
    /\ Resolved = String("0")

PlainUntagged == RootScalar /\ last.style = "Plain" /\ ~last.tag.some

\* the tiers of plain inference in their order; tier 8, String, accepts every text
Tiers == 1..8

Accepts(t, v) ==
    CASE t = 1 -> starts_with(v, "0x") /\ from_str_radix(Rest(v, 3), 16).ok
      [] t = 2 -> starts_with(v, "0o") /\ from_str_radix(Rest(v, 3), 8).ok
      [] t = 3 -> starts_with(v, "+") /\ parse_i64(Rest(v, 2)).ok
      [] t = 4 -> v \in {"~", "null"}
      [] t = 5 -> v \in {"true", "false"}
      [] t = 6 -> parse_i64(v).ok
      [] t = 7 -> parse_f64(v).ok
      [] t = 8 -> TRUE

ValueOf(t, v) ==
    CASE t = 1 -> Integer(from_str_radix(Rest(v, 3), 16).v)
      [] t = 2 -> Integer(from_str_radix(Rest(v, 3), 8).v)
      [] t = 3 -> Integer(parse_i64(Rest(v, 2)).v)
      [] t = 4 -> Null
      [] t = 5 -> Boolean(v = "true")
      [] t = 6 -> Integer(parse_i64(v).v)
      [] t = 7 -> Real(v)
      [] t = 8 -> String(v)

FirstTier(v) == CHOOSE t \in Tiers : Accepts(t, v) /\ \A u \in Tiers : u < t => ~Accepts(u, v)

\* C4: a plain untagged scalar resolves to the value of the first tier that accepts
\* its text, in the order hexadecimal, octal, '+' decimal, null, boolean, decimal
\* integer, float, String; an integer literal outside the signed 64-bit range is
\* not accepted by its tier; the result is never Invalid.
C4_FirstTierWins ==
    PlainUntagged =>
        /\ Resolved = ValueOf(FirstTier(last.v), last.v)
        /\ Resolved.k # "BadValue"

\* 2^63 is past the decimal integer tier and is taken by the float tier
C4_Witness ==
    /\ PlainUntagged /\ last.v = "9223372036854775808"
    /\ ~Accepts(6, last.v) /\ Resolved = Real(last.v)

\* the node of the event delivered last sits where insert_new_node puts a node:
\* as the root, at the end of the open sequence, or in the open mapping as the
\* pending key or as the value of the entry inserted last
PlacedLast(y) ==
    /\ doc_stack # <<>>
    /\ IF phase = "root" THEN Top(doc_stack).y = y
       ELSE LET parent == Top(doc_stack).y.n
            IN  CASE parent.k = "Array" -> parent.c # <<>> /\ Top(parent.c) = y
                  [] parent.k = "Hash" ->
                       /\ key_stack # <<>>
                       /\ \/ Top(key_stack) = y
                          \/ /\ is_badvalue(Top(key_stack).n)
                             /\ parent.c # <<>> /\ Top(parent.c).item.value = y
                  [] OTHER -> FALSE

\* every Yaml of a tree: the tree, its elements, its entries' values
RECURSIVE Subtrees(_)
Subtrees(y) ==
    {y} \cup
    CASE y.n.k = "Array" -> UNION { Subtrees(y.n.c[i]) : i \in 1..Len(y.n.c) }
      [] y.n.k = "Hash"  -> UNION { Subtrees(y.n.c[i].item.value) : i \in 1..Len(y.n.c) }
      [] OTHER -> {}

\* every Yaml the loader holds
Held ==
    UNION ( { Subtrees(docs[i]) : i \in 1..Len(docs) }
            \cup { Subtrees(doc_stack[i].y) : i \in 1..Len(doc_stack) }
            \cup { Subtrees(key_stack[i]) : i \in 1..Len(key_stack) } )

AliasOfClosed == last.type = "Alias" /\ last.aid \in declared

\* C5: an Alias(id) delivered after a node with anchor id has closed puts at the
\* alias site the anchor table's Value for id, and that Value is the finished node
\* with all its children: whatever the loader holds under the node's marker, the
\* anchored node or a copy, equals it.
C5_AliasCopiesFinishedNode ==
    /\ AliasOfClosed =>
          /\ last.aid \in DOMAIN anchor_map
          /\ PlacedLast(anchor_map[last.aid])
    /\ \A id \in DOMAIN anchor_map :
          \A t \in Held : t.m = anchor_map[id].m => t = anchor_map[id]

\* the alias of a closed anchored container with a child, next to that container
C5_Witness ==
    /\ AliasOfClosed
    /\ Len(doc_stack) = 1 /\ Top(doc_stack).y.n.k = "Array"
    /\ Len(Top(doc_stack).y.n.c) = 2
    /\ Top(doc_stack).y.n.c[1] = Top(doc_stack).y.n.c[2]
    /\ Top(doc_stack).y.n.c[2].n.c # <<>>

AliasOfUnknown == last.type = "Alias" /\ last.aid \notin declared

\* C6: an Alias(id) whose id no closed node has declared (an id never declared, or
\* the anchor of a container still open) inserts Invalid at the alias site, marked
\* with the alias event's marker, and the loader does not fail.
C6_UnboundAliasIsInvalid ==
    AliasOfUnknown =>
        /\ ~panicked
        /\ PlacedLast(Yaml(nev, BadValue))

\* an alias inside the container that declares its anchor
C6_Witness ==
    /\ AliasOfUnknown
    /\ \E i \in 1..Len(open) : open[i].aid = last.aid
    /\ Top(doc_stack).aid = last.aid
    /\ Top(doc_stack).y.n = Array(<<Yaml(nev, BadValue)>>)

\* the mapping under construction and its entries, in iteration order
MappingOpen == doc_stack # <<>> /\ Top(doc_stack).y.n.k = "Hash"

MapEntries == Top(doc_stack).y.n.c

Keys(h) == [i \in 1..Len(h) |-> h[i].key]

IsPrefix(s, t) == Len(s) <= Len(t) /\ SubSeq(t, 1, Len(s)) = s

\* C7: a mapping iterates in the order its keys were first inserted: no step of
\* the loading moves a key already in the mapping, a step only appends new keys.
C7_FirstInsertionOrder ==
    [][ (MappingOpen /\ MappingOpen') => IsPrefix(Keys(MapEntries), Keys(MapEntries')) ]_vars

\* C8: the keys of a mapping are unique, and a pair whose key the mapping already
\* holds does not replace the value stored under that key.
C8_DuplicateDoesNotReplace ==
    [][ (MappingOpen /\ MappingOpen') =>
           /\ \A i, j \in 1..Len(MapEntries') :
                 NodeEq(MapEntries'[i].key, MapEntries'[j].key) => i = j
           /\ \A i \in 1..Len(MapEntries) :
                 LET kept == hash_get(MapEntries', MapEntries[i].key)
                 IN  kept.some /\ NodeEq(kept.item.value.n, MapEntries[i].item.value.n) ]_vars

\* the Document end events delivered so far
Ended == IF phase \in {"doc", "root"} THEN Len(history) - 1 ELSE Len(history)

\* the ordinals of the events of the i-th document
EventsOf(i) ==
    history[i].first .. (IF i < Len(history) THEN history[i + 1].first - 1 ELSE nev)

\* y is the Value the root event of the i-th document builds
IsRootOf(y, i) ==
    LET root == history[i].root
    IN  CASE root.type = "None"          -> y = BAD_VALUE
          [] root.type = "SequenceStart" -> y.m = root.m /\ y.n.k = "Array"
          [] root.type = "MappingStart"  -> y.m = root.m /\ y.n.k = "Hash"
          [] root.type = "Scalar"        -> y.m = root.m /\ y.n.k \notin {"Array", "Hash"}
          [] root.type = "Alias"         -> y.m = root.m \/ y.m \in history[i].copied
          [] OTHER -> FALSE

\* C9: after n Document end events the document list has n entries; the i-th is
\* the root Value of the i-th document; and every node in it comes from an event
\* of the i-th document, or is the copy an Alias of the i-th document put there.
C9_OneEntryPerDocument ==
    ~panicked =>
       /\ Len(docs) = Ended
       /\ \A i \in 1..Len(docs) :
             /\ IsRootOf(docs[i], i)
             /\ (Markers(docs[i]) \ {NoMarker}) \subseteq (EventsOf(i) \cup history[i].copied)

\* the stream has ended after two documents, each a container with a child
C9_Witness ==
    /\ phase = "end" /\ Len(docs) = 2 /\ ~panicked
    /\ \A i \in 1..2 : docs[i].n.k \in {"Array", "Hash"} /\ docs[i].n.c # <<>>
    /\ docs[1].m < docs[2].m

\* C10: a Document end delivered while doc_stack is empty appends one document,
\* the Invalid Value without marker, does not fail, and changes nothing else of
\* the loader.
C10_EmptyDocument ==
    [][ (nev' = nev + 1 /\ last'.type = "DocumentEnd" /\ doc_stack = <<>>) =>
           /\ docs' = Append(docs, BAD_VALUE)
           /\ ~panicked'
           /\ UNCHANGED <<doc_stack, key_stack, anchor_map>> ]_vars

\* a document without node events has ended, after a document that bound an anchor
C10_Witness ==
    /\ last.type = "DocumentEnd" /\ Top(history).root = NoRoot
    /\ Len(docs) = 2 /\ docs[2] = BAD_VALUE /\ docs[1] # BAD_VALUE
    /\ anchor_map # <<>> /\ ~panicked

\* the two Yaml hold equal Values: they are the same once every marker and key
\* marker is erased
SameValue == StripNode(lhs.n) = StripNode(rhs.n)

\* C11: two Yaml, or two HashItems, that hold equal Values are ==, compare as
\* Equal and hash alike, whatever their markers and key markers at any depth;
\* and == holds exactly when cmp gives Equal.
C11_MarkersIgnored ==
    verdict.done # "none" =>
       /\ SameValue => verdict.eq /\ verdict.ord = "Equal" /\ verdict.ha = verdict.hb
       /\ verdict.eq <=> verdict.ord = "Equal"

\* two HashItems with different key markers, wrapping a sequence of a mapping
\* whose markers and key markers differ
C11_Witness ==
    /\ verdict.done = "item" /\ verdict.ka # verdict.kb
    /\ SameValue /\ lhs.m # rhs.m
    /\ lhs.n.k = "Array" /\ lhs.n.c # <<>> /\ lhs.n.c[1].n.k = "Hash"
    /\ lhs.n.c[1].m # rhs.n.c[1].m
    /\ lhs.n.c[1].n.c[1].item.key_marker # rhs.n.c[1].n.c[1].item.key_marker
    /\ lhs.n.c[1].n.c[1].item.value.m # rhs.n.c[1].n.c[1].item.value.m
    /\ verdict.eq

\* the accessors of the conversions that gave a value
Present(g) ==
    { f \in {"as_bool", "as_i64", "as_str", "as_hash", "as_vec", "into_bool", "into_i64",
             "into_string", "into_hash", "into_vec"} : g[f].some }
    \cup { f \in {"as_f64", "into_f64"} : g[f].ok }

\* C12: every as_* and into_* accessor applied to Invalid gives None, and every
\* index step applied to Invalid, by string or by integer, gives Invalid, so a
\* chain that has reached Invalid stays there.
C12_InvalidClosed ==
    /\ (got.done /\ is_badvalue(cur.n)) => Present(got) = {}
    /\ (Indexed /\ is_badvalue(LastHop.recv.n)) => cur = BAD_VALUE

\* a document whose root is Invalid, indexed twice and then converted
C12_Witness ==
    /\ Len(path) = 3 /\ got.done
    /\ is_badvalue(docs[path[1].d].n)
    /\ path[2].t # path[3].t
    /\ path[3].recv = BAD_VALUE /\ cur = BAD_VALUE

\* the entries of the receiver of the last step whose key is an Integer
\* numerically equal to the usize of the step
NumericallyEqual(recv, idx) ==
    { j \in EntriesUnder(recv, Integer(idx)) : idx[1] < SignLimb }

\* C13: a usize index i on a Mapping returns the value stored under the Integer
\* key equal to i, and the Invalid sentinel when the Mapping has no Integer key
\* numerically equal to i, as for every i above the signed 64-bit maximum.
C13_UsizeIndexOnMapping ==
    (Indexed /\ LastHop.t = "usize" /\ LastHop.recv.n.k = "Hash") =>
        IF NumericallyEqual(LastHop.recv.n, LastHop.i) # {}
        THEN \E j \in NumericallyEqual(LastHop.recv.n, LastHop.i) :
                cur = LastHop.recv.n.c[j].item.value
        ELSE cur = BAD_VALUE

\* the Yaml of the scalar event delivered last
LastScalar == Yaml(nev, ScalarNode(last.v, last.style, last.tag))

AwaitingKey == Yaml(NoMarker, BadValue)

\* C14: in an open Mapping the children alternate key, value: an odd child becomes
\* the captured key, whatever Value it resolved to, and an even child is inserted
\* as the value of the key captured before it, leaving the slot awaiting a key.
C14_KeyValueAlternate ==
    (MappingOpen /\ last.type = "Scalar" /\ ~panicked) =>
        IF Top(open).n % 2 = 1
        THEN Top(key_stack) = LastScalar
        ELSE /\ Top(key_stack) = AwaitingKey
             /\ MapEntries # <<>> /\ Top(MapEntries).item.value = LastScalar

\* the event source can deliver a node event, an end event, a Document end next
NodeEventDue == phase = "doc"

EndDue(kind) == phase = "doc" /\ open # <<>> /\ Top(open).kind = kind

DocumentEndDue == phase = "root" \/ (phase = "doc" /\ open = <<>>)

\* C15: on a well-formed stream the loader never hits an unwrap of None or an
\* unreachable arm: an insertion finds doc_stack empty or a container on top (and
\* a pending-key slot when that container is a mapping), an end event finds the
\* entries it pops, a Document end finds at most one entry on doc_stack, and
\* leaves doc_stack and key_stack empty.
C15_NoFatalViolation ==
    /\ ~panicked
    /\ NodeEventDue =>
          \/ doc_stack = <<>>
          \/ Top(doc_stack).y.n.k = "Array"
          \/ Top(doc_stack).y.n.k = "Hash" /\ key_stack # <<>>
    /\ EndDue("seq") => doc_stack # <<>>
    /\ EndDue("map") => doc_stack # <<>> /\ key_stack # <<>>
    /\ DocumentEndDue => Len(doc_stack) <= 1
    /\ last.type = "DocumentEnd" => doc_stack = <<>> /\ key_stack = <<>>

\* a document that is a sequence holding a mapping with a pair has ended
C15_Witness ==
    /\ last.type = "DocumentEnd" /\ ~panicked /\ docs # <<>>
    /\ Top(docs).n.k = "Array" /\ Top(docs).n.c # <<>>
    /\ Top(docs).n.c[1].n.k = "Hash" /\ Top(docs).n.c[1].n.c # <<>>

\* the positions of the mappings on doc_stack
MappingEntries == { i \in 1..Len(doc_stack) : doc_stack[i].y.n.k = "Hash" }

\* those of them that are open: all, unless the one entry of doc_stack is the
\* finished root that waits for its Document end; and the j-th open one
OpenMappings == IF phase = "root" THEN {} ELSE MappingEntries

OpenMappingAt(j) ==
    CHOOSE i \in OpenMappings : Cardinality({ x \in OpenMappings : x <= i }) = j

\* slot j holds what the j-th open mapping put there: nothing yet, or a child of
\* that mapping, i.e. a node begun after the mapping and before the open node
\* above it, or a copy an Alias made
SlotBelongs(j) ==
    LET i  == OpenMappingAt(j)
        m  == key_stack[j].m
        lo == doc_stack[i].y.m
        hi == IF i < Len(doc_stack) THEN doc_stack[i + 1].y.m ELSE nev + 1
    IN  \/ m = NoMarker
        \/ lo <= m /\ m < hi
        \/ history # <<>> /\ m \in Top(history).copied

\* C16 as stated: the depth of key_stack equals the number of mappings on
\* doc_stack, in every reachable state.
C16_AsStated == Len(key_stack) = Cardinality(MappingEntries)

\* C16 as amended: key_stack has one slot per open mapping, in the order of the
\* open mappings on doc_stack, so that its top is the slot of the innermost one;
\* a finished root mapping that waits on doc_stack for its Document end has no slot.
C16_OneSlotPerOpenMapping ==
    /\ Len(key_stack) = Cardinality(OpenMappings)
    /\ \A j \in 1..Len(key_stack) : j <= Cardinality(OpenMappings) => SlotBelongs(j)

\* an open mapping whose captured key waits while a sequence, its value, is open
C16_Witness ==
    /\ Len(doc_stack) = 2 /\ Len(key_stack) = 1
    /\ doc_stack[1].y.n.k = "Hash" /\ doc_stack[2].y.n.k = "Array"
    /\ doc_stack[2].y.n.c # <<>>
    /\ ~is_badvalue(key_stack[1].n)

\* the anchor table after the step is the table before it with id bound to y,
\* every other binding kept; unchanged when id is 0
Rebound(id, y) ==
    IF id = 0 THEN anchor_map' = anchor_map
    ELSE /\ DOMAIN anchor_map' = DOMAIN anchor_map \cup {id}
         /\ anchor_map'[id] = y
         /\ \A i \in DOMAIN anchor_map \ {id} : anchor_map'[i] = anchor_map[i]

\* C17: the anchor table changes only when a node closes: a scalar binds its
\* anchor to itself, a Sequence end or Mapping end binds the anchor its start
\* event declared to the finished container, replacing any earlier binding of
\* that id; a start event, an Alias, any other event and a node with anchor 0
\* leave the table as it is. An Alias(id) therefore gets the node that declared id
\* and closed last.
C17_BoundAtClose ==
    [][ nev' = nev + 1 =>
          CASE last'.type = "Scalar" ->
                 Rebound(last'.aid, Yaml(nev', ScalarNode(last'.v, last'.style, last'.tag)))
            [] last'.type \in {"SequenceEnd", "MappingEnd"} ->
                 Rebound(Top(open).aid, Top(doc_stack).y)
            [] OTHER -> anchor_map' = anchor_map ]_vars

\* the anchor is bound to a sequence that closed after its first element, which
\* had bound the same anchor: the second element is the Alias copy of the first
C17_Witness ==
    /\ 1 \in DOMAIN anchor_map
    /\ anchor_map[1].n.k = "Array" /\ Len(anchor_map[1].n.c) = 2
    /\ anchor_map[1].n.c[1] = anchor_map[1].n.c[2]
    /\ anchor_map[1].n.c[1].m # NoMarker

\* a step that inserts a pair into the open mapping: a key is captured and the
\* value's scalar arrives
InsertsPair ==
    /\ MappingOpen /\ MappingOpen' /\ key_stack # <<>>
    /\ ~is_badvalue(Top(key_stack).n)
    /\ nev' = nev + 1 /\ last'.type = "Scalar"

\* C18: the entry stored for a pair carries, as its key marker, the marker of the
\* key node, next to the value with the value's own marker.
C18_KeyMarkerStored ==
    [][ InsertsPair =>
          /\ MapEntries' # <<>>
          /\ Top(MapEntries').item.value.m = nev'
          /\ Top(MapEntries').item.key_marker = Top(key_stack).m ]_vars

\* the class of float a text spells as a special token, letters in any case:
\* .inf with or without a sign, .nan without; "none" for every other text
SpecialFloat(v) ==
    CASE Lower(v) \in {".inf", "+.inf"} -> "infinity"
      [] Lower(v) = "-.inf" -> "neg_infinity"
      [] Lower(v) = ".nan" -> "nan"
      [] OTHER -> "none"

\* C19: a plain scalar, untagged or tagged !!float, whose text spells .inf, +.inf,
\* -.inf or .nan in any mix of upper and lower case resolves to Float, and the
\* float conversion of that Float gives the infinity or the NaN spelled.
C19_SpecialFloatsAnyCase ==
    (RootScalar /\ last.style = "Plain" /\ last.tag \in {NoTag, Tag("!!", "float")}
       /\ SpecialFloat(last.v) # "none") =>
        /\ Resolved = Real(last.v)
        /\ as_f64(Resolved) = [ok |-> TRUE, cls |-> SpecialFloat(last.v)]

\* the event kinds on_event has an arm for that builds or closes something
BuilderEvents ==
    {"DocumentEnd", "SequenceStart", "SequenceEnd", "MappingStart", "MappingEnd",
     "Scalar", "Alias"}

\* C20: a Document start, and every event of a kind the builder has no arm for
\* (stream start, stream end), leaves docs, doc_stack, key_stack and anchor_map as
\* they were, and does not fail.
C20_OtherEventsIgnored ==
    [][ (nev' = nev + 1 /\ last'.type \notin BuilderEvents) => UNCHANGED loader ]_vars

\* the second document starts while the loader holds a document and an anchor
C20_Witness ==
    /\ last.type = "DocumentStart" /\ ~panicked
    /\ Len(docs) = 1 /\ docs[1].n.k \in {"Array", "Hash"}
    /\ 1 \in DOMAIN anchor_map

\* the last event is an Alias(id) of a later document, id was declared by a node
\* that closed, and no node of the present document has bound id since
AliasOfEarlierDocument ==
    /\ last.type = "Alias" /\ last.aid \in declared
    /\ Len(history) > 1
    /\ last.aid \in DOMAIN anchor_map => anchor_map[last.aid].m < Top(history).first

\* C21: the anchor table is never cleared or shrunk during one load: no event
\* removes a binding, a Document start and a Document end leave the table as it
\* is, and so an Alias(id) in a later document, whose id a node closed in an
\* earlier document bound, puts at the alias site the table's Value for id, which
\* carries the marker of an event of the earlier document and is not the Invalid
\* Value marked with the alias event.
C21_AnchorsOutliveDocuments ==
    /\ [][ /\ DOMAIN anchor_map \subseteq DOMAIN anchor_map'
           /\ (nev' = nev + 1 /\ last'.type \in {"DocumentStart", "DocumentEnd"}) =>
                 anchor_map' = anchor_map ]_vars
    /\ [](AliasOfEarlierDocument =>
             /\ last.aid \in DOMAIN anchor_map
             /\ PlacedLast(anchor_map[last.aid])
             /\ anchor_map[last.aid].m < Top(history).first
             /\ anchor_map[last.aid].m # nev)

\* the root of the second document is the alias of the first document's root, an
\* anchored sequence with an element
C21_Witness ==
    /\ AliasOfEarlierDocument /\ ~panicked
    /\ Len(docs) = 1 /\ Len(doc_stack) = 1
    /\ Top(doc_stack).y = docs[1]
    /\ docs[1].n.k = "Array" /\ docs[1].n.c # <<>>

\* every Node of a tree: the node, its elements, its entries' keys and values
RECURSIVE NodesOf(_)
NodesOf(n) ==
    {n} \cup
    CASE n.k = "Array" -> UNION { NodesOf(n.c[i].n) : i \in 1..Len(n.c) }
      [] n.k = "Hash"  ->
           UNION { NodesOf(n.c[i].key) \cup NodesOf(n.c[i].item.value.n) : i \in 1..Len(n.c) }
      [] OTHER -> {}

\* every Node the builder has placed: in the finished documents, in the open
\* nodes, among the pending keys and in the anchor table
Built ==
    UNION ( { NodesOf(docs[i].n) : i \in 1..Len(docs) }
            \cup { NodesOf(doc_stack[i].y.n) : i \in 1..Len(doc_stack) }
            \cup { NodesOf(key_stack[i].n) : i \in 1..Len(key_stack) }
            \cup { NodesOf(anchor_map[id].n) : id \in DOMAIN anchor_map } )

\* the texts of the Float nodes the builder has placed
FloatTexts == { n.s : n \in { f \in Built : f.k = "Real" } }

\* C22: every Float node the builder places, directly or through an alias copy,
\* holds text that parse_f64 accepts, so as_f64 and into_f64 of a Float reached in
\* a loaded document are never None; a Float comes from a plain scalar that is
\* untagged or tagged !!float and holds that scalar's text unchanged, and no step
\* brings in a Float text other than the text of the scalar it delivers.
C22_FloatsConvert ==
    /\ [](\A t \in FloatTexts : parse_f64(t).ok)
    /\ []((got.done /\ cur.n.k = "Real") => (got.as_f64.ok /\ got.into_f64.ok))
    /\ [](\A t \in FloatTexts :
             (last.type = "Scalar" /\ PlacedLast(Yaml(nev, Real(t)))) =>
                 /\ last.style = "Plain"
                 /\ last.tag \in {NoTag, Tag("!!", "float")}
                 /\ t = last.v)
    /\ [][ FloatTexts' \subseteq
             FloatTexts \cup (IF nev' = nev + 1 /\ last'.type = "Scalar" THEN {last'.v} ELSE {})
         ]_vars

\* the second element of a loaded sequence is the alias copy of the first, a scalar
\* tagged !!float whose text inference would take for an Integer; the reader has
\* indexed the copy and converted it
C22_Witness ==
    /\ Len(path) = 2 /\ path[2].t = "usize" /\ path[2].i = I64(1)
    /\ path[2].recv.n.k = "Array" /\ Len(path[2].recv.n.c) = 2
    /\ path[2].recv.n.c[1] = path[2].recv.n.c[2]
    /\ cur = Yaml(cur.m, Real("1"))
    /\ got.done /\ got.as_f64 = [ok |-> TRUE, cls |-> "finite"]

====
